---- MODULE Spec2Model ----
(***************************************************************************)
(* Model of create-plots.py: a straight-line script that defines survey    *)
(* age distributions, converts counts to percentages, remaps every survey  *)
(* onto five coarse bins and renders six figures with matplotlib.pyplot.   *)
(*                                                                         *)
(* Numbers are exact rationals [n, d] in lowest terms with d > 0.  The     *)
(* script computes in IEEE doubles; each operation there differs from the  *)
(* exact result by a relative error of at most 2^-53, far below the        *)
(* tolerances (1e-6, two decimals) of the properties stated here.          *)
(***************************************************************************)
EXTENDS Integers, Sequences, FiniteSets

\* ------------------------------------------------------------------ numbers

Abs(x) == IF x < 0 THEN -x ELSE x

RECURSIVE GCD(_, _)
GCD(a, b) == IF b = 0 THEN a ELSE GCD(b, a % b)

Norm(n, d) ==
    LET g == GCD(Abs(n), Abs(d))
        s == IF d < 0 THEN -1 ELSE 1
    IN  [n |-> s * (n \div g), d |-> s * (d \div g)]

\* an integer literal, and a decimal literal given as n/d (12.5 is Dec(125, 10))
Num(k) == [n |-> k, d |-> 1]
Dec(n, d) == Norm(n, d)

LCM(a, b) == (a \div GCD(a, b)) * b

RAdd(a, b) ==
    LET l == LCM(a.d, b.d)
    IN  Norm(a.n * (l \div a.d) + b.n * (l \div b.d), l)

RSub(a, b) == RAdd(a, [n |-> -b.n, d |-> b.d])

RMul(a, b) ==
    LET g1 == GCD(Abs(a.n), b.d)
        g2 == GCD(Abs(b.n), a.d)
    IN  Norm((a.n \div g1) * (b.n \div g2), (a.d \div g2) * (b.d \div g1))

\* a / b for b # 0; Python raises ZeroDivisionError for b = 0 (see Comprehension)
RDiv(a, b) == RMul(a, Norm(b.d, b.n))

\* an/ad <= bn/bd for ad, bd > 0, by integer parts and then the reciprocals of
\* the fractional parts, which needs no product of the operands
RECURSIVE LeqFrac(_, _, _, _)
LeqFrac(an, ad, bn, bd) ==
    LET qa == an \div ad
        qb == bn \div bd
        ra == an % ad
        rb == bn % bd
    IN  IF qa # qb THEN qa < qb
        ELSE IF ra = 0 THEN TRUE
        ELSE IF rb = 0 THEN FALSE
        ELSE LeqFrac(bd, rb, ad, ra)

RLeq(a, b) == LeqFrac(a.n, a.d, b.n, b.d)

RLt(a, b) == RLeq(a, b) /\ a # b

RAbs(a) == [n |-> Abs(a.n), d |-> a.d]

\* |a - b| <= tol
Within(a, b, tol) == RLeq(RAbs(RSub(a, b)), tol)

\* Python's sum(xs): 0 + xs[0] + xs[1] + ..., left to right
RECURSIVE RSumFrom(_, _, _)
RSumFrom(xs, i, acc) ==
    IF i > Len(xs) THEN acc ELSE RSumFrom(xs, i + 1, RAdd(acc, xs[i]))

RSum(xs) == RSumFrom(xs, 1, Num(0))

Min(a, b) == IF a <= b THEN a ELSE b

\* xs[:k] for k >= 0 and xs[:-k] written as DropLast(xs, k)
Take(xs, k) == SubSeq(xs, 1, Min(k, Len(xs)))
DropLast(xs, k) == SubSeq(xs, 1, IF Len(xs) >= k THEN Len(xs) - k ELSE 0)

\* -------------------------------------------------- counts -> percentages

\* [count / total * 100 for count in counts]: one division per element, so a
\* zero total raises ZeroDivisionError at the first element, and an empty
\* counts list evaluates no division at all.
\* mutant: a zero total yields zeros instead of raising
RECURSIVE Comprehension_Silent(_, _, _, _)
Comprehension_Silent(counts, total, i, acc) ==
    IF i > Len(counts) THEN [raised |-> FALSE, values |-> acc]
    ELSE Comprehension_Silent(counts, total, i + 1,
            Append(acc, IF total.n = 0 THEN Num(0)
                        ELSE RMul(RDiv(counts[i], total), Num(100))))

RECURSIVE Comprehension(_, _, _, _)
Comprehension(counts, total, i, acc) ==
    IF i > Len(counts) THEN [raised |-> FALSE, values |-> acc]
    ELSE IF total.n = 0 THEN [raised |-> TRUE, values |-> <<>>]
    ELSE Comprehension(counts, total, i + 1,
                       Append(acc, RMul(RDiv(counts[i], total), Num(100))))

counts_to_percentages(counts) == Comprehension(counts, RSum(counts), 1, <<>>)

\* ------------------------------------------------------------ survey data

\* a list of integer literals, and a list of decimal literals in tenths / hundredths
MapNum(ks, q) == [i \in 1..Len(ks) |-> Dec(ks[i], q)]

opensuse_bins == <<"<=25", "25-34", "35-49", "50+">>
opensuse_values == <<Num(19), Num(26), Num(42), Dec(125, 10)>>

stackoverflow_bins ==
    <<"<18", "18-24", "25-34", "35-44", "45-54", "55-64", ">=65", "No answer">>
stackoverflow_2023_counts ==
    MapNum(<<4128, 17931, 33247, 20532, 8334, 3392, 1171, 449>>, 1)
stackoverflow_2025_values == MapNum(<<0, 187, 336, 269, 128, 53, 19, 8>>, 10)
stackoverflow_2021_values ==
    MapNum(<<652, 2547, 3952, 1842, 664, 221, 51, 70>>, 100)
stackoverflow_2016_values ==
    << Dec(43, 10), Dec(264, 10), RAdd(Dec(284, 10), Dec(181, 10)),
       Dec(147, 10), Dec(60, 10), Dec(20, 10), Dec(3, 10) >>

linux_foundation_bins ==
    <<"18-24", "25-34", "35-44", "45-54", "55-64", "65-74", ">=75", "No answer">>
\* mutant: the "No answer" value is missing
linux_foundation_values_Short == MapNum(<<8, 22, 29, 21, 13, 4, 2>>, 1)
linux_foundation_values == MapNum(<<8, 22, 29, 21, 13, 4, 2, 1>>, 1)

debian_bins == <<"<20", "20-29", "30-39", "40-49", "50-59", ">60">>
\* mutant: a first count that makes the total 812
debian_counts_812 == MapNum(<<5, 132, 378, 225, 57, 15>>, 1)
debian_counts == MapNum(<<15, 132, 378, 225, 57, 15>>, 1)

cncf_bins == <<"<18", "18-24", "25-34", "35-44", "45-54", ">=55">>
\* mutant: a last value of 6 instead of 7
cncf_values_Low == MapNum(<<1, 22, 32, 25, 12, 6>>, 1)
cncf_values == MapNum(<<1, 22, 32, 25, 12, 7>>, 1)

so_bins_for_reference ==
    <<"<18", "18-24", "25-34", "35-44", "45-54", "55-64", "65+">>
so_age_positions == MapNum(<<160, 210, 295, 395, 495, 595, 700>>, 10)

opensuse_age_positions == MapNum(<<200, 295, 420, 600>>, 10)
stackoverflow_age_positions_plot ==
    MapNum(<<140, 210, 295, 395, 495, 595, 700>>, 10)
linux_foundation_age_positions ==
    MapNum(<<210, 295, 395, 495, 595, 695, 775>>, 10)
debian_age_positions == MapNum(<<160, 245, 345, 445, 545, 650>>, 10)
cncf_age_positions == MapNum(<<130, 210, 295, 395, 495, 600>>, 10)

coarse_bins == <<"<25", "25-34", "35-44", "45-54", "55+">>

\* np.arange(n)
arange(n) == [i \in 1..n |-> Num(i - 1)]

\* (age - 15) / (70 - 15) * 5 - 0.5 for age in so_age_positions
so_x_positions(ages) ==
    [i \in 1..Len(ages) |->
        RSub(RMul(RDiv(RSub(ages[i], Num(15)), Num(70 - 15)), Num(5)), Dec(5, 10))]

\* ------------------------------------------------------------ bin remapping

\* One term of a coarse entry: source bin src (1-based) times a fraction.
\* A source value used unmultiplied is the fraction 1.
Rule(src, frac) == [src |-> src, frac |-> frac]
Whole(src) == Rule(src, Num(1))

\* mutant: the split the comments name (2/3 and 1/3) instead of 0.67 / 0.33
opensuse_rules_Thirds ==
    << <<Whole(1)>>,
       <<Whole(2)>>,
       <<Rule(3, Dec(2, 3))>>,
       <<Rule(3, Dec(1, 3))>>,
       <<Whole(4)>> >>

\* The coarse lists, one sequence of terms per target bin, in coarse_bins order.
opensuse_rules ==
    << <<Whole(1)>>,
       <<Whole(2)>>,
       <<Rule(3, Dec(67, 100))>>,
       <<Rule(3, Dec(33, 100))>>,
       <<Whole(4)>> >>

stackoverflow_rules ==
    << <<Whole(1), Whole(2)>>,
       <<Whole(3)>>,
       <<Whole(4)>>,
       <<Whole(5)>>,
       <<Whole(6), Whole(7)>> >>

linux_foundation_rules ==
    << <<Whole(1)>>,
       <<Whole(2)>>,
       <<Whole(3)>>,
       <<Whole(4)>>,
       <<Whole(5), Whole(6), Whole(7)>> >>

\* mutant: one 0.6 typed as 0.5
debian_rules_Typo ==
    << <<Whole(1), Rule(2, Dec(4, 10))>>,
       <<Rule(2, Dec(6, 10)), Rule(3, Dec(4, 10))>>,
       <<Rule(3, Dec(5, 10)), Rule(4, Dec(4, 10))>>,
       <<Rule(4, Dec(6, 10)), Rule(5, Dec(4, 10))>>,
       <<Rule(5, Dec(6, 10)), Whole(6)>> >>

debian_rules ==
    << <<Whole(1), Rule(2, Dec(4, 10))>>,
       <<Rule(2, Dec(6, 10)), Rule(3, Dec(4, 10))>>,
       <<Rule(3, Dec(6, 10)), Rule(4, Dec(4, 10))>>,
       <<Rule(4, Dec(6, 10)), Rule(5, Dec(4, 10))>>,
       <<Rule(5, Dec(6, 10)), Whole(6)>> >>

\* mutant: the <18 bin is left out of <25
cncf_rules_NoMinors ==
    << <<Whole(2)>>,
       <<Whole(3)>>,
       <<Whole(4)>>,
       <<Whole(5)>>,
       <<Whole(6)>> >>

cncf_rules ==
    << <<Whole(1), Whole(2)>>,
       <<Whole(3)>>,
       <<Whole(4)>>,
       <<Whole(5)>>,
       <<Whole(6)>> >>

\* mutant: the fraction of a term is ignored
Term_NoFraction(values, r) == values[r.src]

\* values[src] * frac
Term(values, r) == RMul(values[r.src], r.frac)

\* t1 + t2 + ... of one coarse entry, left to right
RECURSIVE TermSum(_, _, _, _)
TermSum(values, terms, k, acc) ==
    IF k > Len(terms) THEN acc
    ELSE TermSum(values, terms, k + 1, RAdd(acc, Term(values, terms[k])))

\* mutant: the first term of an entry is added twice
Entry_FirstTwice(values, terms) ==
    IF Len(terms) = 0 THEN Num(0)
    ELSE TermSum(values, terms, 1, Term(values, terms[1]))

Entry(values, terms) ==
    IF Len(terms) = 0 THEN Num(0)
    ELSE TermSum(values, terms, 2, Term(values, terms[1]))

\* the list display [entry_1, ..., entry_M]
Remap(values, rules) == [j \in 1..Len(rules) |-> Entry(values, rules[j])]

\* every subscript of the list display is inside the source list
InRange(values, rules) ==
    \A j \in 1..Len(rules) : \A k \in 1..Len(rules[j]) :
        rules[j][k].src \in 1..Len(values)

\* Sum of the fractions with which source bin i enters the target bins.
RECURSIVE FracIn(_, _, _, _)
FracIn(terms, i, k, acc) ==
    IF k > Len(terms) THEN acc
    ELSE FracIn(terms, i, k + 1,
                IF terms[k].src = i THEN RAdd(acc, terms[k].frac) ELSE acc)

RECURSIVE FracSumFrom(_, _, _, _)
FracSumFrom(rules, i, j, acc) ==
    IF j > Len(rules) THEN acc
    ELSE FracSumFrom(rules, i, j + 1, FracIn(rules[j], i, 1, acc))

FracSum(rules, i) == FracSumFrom(rules, i, 1, Num(0))

\* the coarse lists of the combined chart, as functions of the survey values
opensuse_coarse(values) == Remap(values, opensuse_rules)
stackoverflow_coarse(values) == Remap(values, stackoverflow_rules)
linux_foundation_coarse(values) == Remap(values, linux_foundation_rules)
debian_coarse(values) == Remap(values, debian_rules)
cncf_coarse(values) == Remap(values, cncf_rules)

\* stackoverflow_2023_values[:-1] and linux_foundation_values[:7]
so_values_for_reference(values) == DropLast(values, 1)
lf_values(values) == Take(values, 7)

\* ------------------------------------------------------------ the script

\* One top-level statement: its first line, what it does, the names it binds,
\* the names it reads before anything else happens (the operands of a call,
\* the iterable of a for statement or of a comprehension), and for ax.plot /
\* ax.bar the x and y operands (ys[:-ycut]).  A name read only in a loop body
\* or in the element of a comprehension is looked up when that code runs (see
\* Elements, Loop and YLim).
S(line, kind, binds, reads, arg, xs, ys, ycut) ==
    [line |-> line, kind |-> kind, binds |-> binds, reads |-> reads,
     arg |-> arg, xs |-> xs, ys |-> ys, ycut |-> ycut]

Program ==
    << S(1, "doc", {}, {}, "", "", "", 0),
       S(3, "import", {"plt"}, {}, "", "", "", 0),
       S(4, "import", {"np"}, {}, "", "", "", 0),
       S(26, "assign", {"INDIVIDUAL_GRAPH_WIDTH"}, {}, "", "", "", 0),
       S(27, "assign", {"INDIVIDUAL_GRAPH_HEIGHT"}, {}, "", "", "", 0),
       S(28, "assign", {"COMBINED_GRAPH_WIDTH"}, {}, "", "", "", 0),
       S(29, "assign", {"COMBINED_GRAPH_HEIGHT"}, {}, "", "", "", 0),
       S(30, "assign", {"DPI"}, {}, "", "", "", 0),
       S(36, "assign", {"opensuse_bins"}, {}, "", "", "", 0),
       S(37, "assign", {"opensuse_values"}, {}, "", "", "", 0),
       S(40, "assign", {"stackoverflow_bins"}, {}, "", "", "", 0),
       S(51, "assign", {"stackoverflow_2023_counts"}, {}, "", "", "", 0),
       S(52, "assign", {"stackoverflow_2023_total"}, {"stackoverflow_2023_counts"}, "", "", "", 0),
       S(53, "assign", {"stackoverflow_2023_values"}, {"stackoverflow_2023_counts"}, "", "", "", 0),
       S(59, "assign", {"stackoverflow_2025_values"}, {}, "", "", "", 0),
       S(62, "assign", {"stackoverflow_2021_values"}, {}, "", "", "", 0),
       S(77, "assign", {"stackoverflow_2016_values"}, {}, "", "", "", 0),
       S(88, "assign", {"linux_foundation_bins"}, {}, "", "", "", 0),
       S(98, "assign", {"linux_foundation_values"}, {}, "", "", "", 0),
       S(101, "assign", {"debian_bins"}, {}, "", "", "", 0),
       S(102, "assign", {"debian_counts"}, {}, "", "", "", 0),
       S(103, "assign", {"debian_total"}, {"debian_counts"}, "", "", "", 0),
       S(104, "assign", {"debian_values"}, {"debian_counts"}, "", "", "", 0),
       S(107, "assign", {"cncf_bins"}, {}, "", "", "", 0),
       S(108, "assign", {"cncf_values"}, {}, "", "", "", 0),
       S(113, "assign", {"so_bins_for_reference"}, {}, "", "", "", 0),
       S(114, "assign", {"so_values_for_reference"}, {"stackoverflow_2023_values"}, "", "", "", 0),
       S(117, "assign", {"so_age_positions"}, {}, "", "", "", 0),
       S(124, "subplots", {"fig1", "ax1"}, {"INDIVIDUAL_GRAPH_HEIGHT", "INDIVIDUAL_GRAPH_WIDTH", "plt"}, "", "", "", 0),
       S(125, "assign", {"opensuse_age_positions"}, {}, "", "", "", 0),
       S(126, "draw", {"bars1"}, {"ax1", "opensuse_age_positions", "opensuse_values"}, "bar", "opensuse_age_positions", "opensuse_values", 0),
       S(135, "draw", {"line1"}, {"ax1", "so_age_positions", "stackoverflow_2021_values"}, "plot", "so_age_positions", "stackoverflow_2021_values", 1),
       S(146, "draw", {}, {"ax1"}, "set_title", "", "", 0),
       S(147, "draw", {}, {"ax1"}, "set_ylabel", "", "", 0),
       S(148, "draw", {}, {"ax1"}, "set_xlabel", "", "", 0),
       S(149, "draw", {}, {"ax1"}, "set_xlim", "", "", 0),
       S(150, "draw", {}, {"ax1", "opensuse_age_positions"}, "set_xticks", "", "", 0),
       S(151, "draw", {}, {"ax1", "opensuse_bins"}, "set_xticklabels", "", "", 0),
       S(152, "draw", {}, {"ax1"}, "legend", "", "", 0),
       S(153, "draw", {}, {"ax1"}, "grid", "", "", 0),
       S(154, "for", {"bar", "i", "value"}, {"bars1", "opensuse_values"}, "", "", "", 0),
       S(163, "draw", {}, {"plt"}, "tight_layout", "", "", 0),
       S(164, "savefig", {}, {"DPI", "plt"}, "media/opensuse_distribution.svg", "", "", 0),
       S(170, "close", {}, {"plt"}, "", "", "", 0),
       S(174, "subplots", {"fig2", "ax2"}, {"INDIVIDUAL_GRAPH_HEIGHT", "INDIVIDUAL_GRAPH_WIDTH", "plt"}, "", "", "", 0),
       S(175, "assign", {"stackoverflow_age_positions_plot"}, {}, "", "", "", 0),
       S(184, "draw", {}, {"ax2", "stackoverflow_2016_values", "stackoverflow_age_positions_plot"}, "plot", "stackoverflow_age_positions_plot", "stackoverflow_2016_values", 0),
       S(194, "draw", {}, {"ax2", "stackoverflow_2021_values", "stackoverflow_age_positions_plot"}, "plot", "stackoverflow_age_positions_plot", "stackoverflow_2021_values", 1),
       S(204, "draw", {}, {"ax2", "so_values_for_reference", "stackoverflow_age_positions_plot"}, "plot", "stackoverflow_age_positions_plot", "so_values_for_reference", 0),
       S(213, "draw", {}, {"ax2", "stackoverflow_2025_values", "stackoverflow_age_positions_plot"}, "plot", "stackoverflow_age_positions_plot", "stackoverflow_2025_values", 1),
       S(224, "draw", {}, {"ax2"}, "set_title", "", "", 0),
       S(225, "draw", {}, {"ax2"}, "set_ylabel", "", "", 0),
       S(226, "draw", {}, {"ax2"}, "set_xlabel", "", "", 0),
       S(227, "draw", {}, {"ax2"}, "set_xlim", "", "", 0),
       S(228, "draw", {}, {"ax2", "stackoverflow_age_positions_plot"}, "set_xticks", "", "", 0),
       S(229, "draw", {}, {"ax2", "so_bins_for_reference"}, "set_xticklabels", "", "", 0),
       S(230, "draw", {}, {"ax2"}, "grid", "", "", 0),
       S(231, "draw", {}, {"ax2"}, "legend", "", "", 0),
       S(242, "draw", {}, {"plt"}, "tight_layout", "", "", 0),
       S(243, "savefig", {}, {"DPI", "plt"}, "media/stackoverflow_distribution.svg", "", "", 0),
       S(249, "close", {}, {"plt"}, "", "", "", 0),
       S(252, "subplots", {"fig3", "ax3"}, {"INDIVIDUAL_GRAPH_HEIGHT", "INDIVIDUAL_GRAPH_WIDTH", "plt"}, "", "", "", 0),
       S(253, "assign", {"linux_foundation_age_positions"}, {}, "", "", "", 0),
       S(254, "assign", {"lf_values"}, {"linux_foundation_values"}, "", "", "", 0),
       S(255, "draw", {"bars3"}, {"ax3", "lf_values", "linux_foundation_age_positions"}, "bar", "linux_foundation_age_positions", "lf_values", 0),
       S(264, "draw", {"line3"}, {"ax3", "so_age_positions", "stackoverflow_2021_values"}, "plot", "so_age_positions", "stackoverflow_2021_values", 1),
       S(275, "draw", {}, {"ax3"}, "set_title", "", "", 0),
       S(276, "draw", {}, {"ax3"}, "set_ylabel", "", "", 0),
       S(277, "draw", {}, {"ax3"}, "set_xlabel", "", "", 0),
       S(278, "draw", {}, {"ax3"}, "set_xlim", "", "", 0),
       S(279, "draw", {}, {"ax3", "linux_foundation_age_positions"}, "set_xticks", "", "", 0),
       S(280, "draw", {}, {"ax3", "linux_foundation_bins"}, "set_xticklabels", "", "", 0),
       S(281, "draw", {}, {"ax3"}, "legend", "", "", 0),
       S(282, "draw", {}, {"ax3"}, "grid", "", "", 0),
       S(283, "for", {"i", "value"}, {"lf_values"}, "", "", "", 0),
       S(292, "draw", {}, {"plt"}, "tight_layout", "", "", 0),
       S(293, "savefig", {}, {"DPI", "plt"}, "media/linux_foundation_distribution.svg", "", "", 0),
       S(299, "close", {}, {"plt"}, "", "", "", 0),
       S(302, "subplots", {"fig4", "ax4"}, {"INDIVIDUAL_GRAPH_HEIGHT", "INDIVIDUAL_GRAPH_WIDTH", "plt"}, "", "", "", 0),
       S(303, "assign", {"debian_age_positions"}, {}, "", "", "", 0),
       S(304, "draw", {"bars4"}, {"ax4", "debian_age_positions", "debian_values"}, "bar", "debian_age_positions", "debian_values", 0),
       S(313, "draw", {"line4"}, {"ax4", "so_age_positions", "stackoverflow_2016_values"}, "plot", "so_age_positions", "stackoverflow_2016_values", 0),
       S(324, "draw", {}, {"ax4"}, "set_title", "", "", 0),
       S(325, "draw", {}, {"ax4"}, "set_ylabel", "", "", 0),
       S(326, "draw", {}, {"ax4"}, "set_xlabel", "", "", 0),
       S(327, "draw", {}, {"ax4"}, "set_xlim", "", "", 0),
       S(328, "draw", {}, {"ax4", "debian_age_positions"}, "set_xticks", "", "", 0),
       S(329, "draw", {}, {"ax4", "debian_bins"}, "set_xticklabels", "", "", 0),
       S(330, "draw", {}, {"ax4"}, "legend", "", "", 0),
       S(331, "draw", {}, {"ax4"}, "grid", "", "", 0),
       S(332, "for", {"i", "value"}, {"debian_values"}, "", "", "", 0),
       S(341, "draw", {}, {"plt"}, "tight_layout", "", "", 0),
       S(342, "savefig", {}, {"DPI", "plt"}, "media/debian_distribution.svg", "", "", 0),
       S(348, "close", {}, {"plt"}, "", "", "", 0),
       S(351, "subplots", {"fig5", "ax5"}, {"INDIVIDUAL_GRAPH_HEIGHT", "INDIVIDUAL_GRAPH_WIDTH", "plt"}, "", "", "", 0),
       S(352, "assign", {"cncf_age_positions"}, {}, "", "", "", 0),
       S(353, "draw", {"bars5"}, {"ax5", "cncf_age_positions", "cncf_values"}, "bar", "cncf_age_positions", "cncf_values", 0),
       S(362, "draw", {"line5"}, {"ax5", "so_age_positions", "stackoverflow_2025_values"}, "plot", "so_age_positions", "stackoverflow_2025_values", 1),
       S(373, "draw", {}, {"ax5"}, "set_title", "", "", 0),
       S(374, "draw", {}, {"ax5"}, "set_ylabel", "", "", 0),
       S(375, "draw", {}, {"ax5"}, "set_xlabel", "", "", 0),
       S(376, "draw", {}, {"ax5"}, "set_xlim", "", "", 0),
       S(377, "draw", {}, {"ax5", "cncf_age_positions"}, "set_xticks", "", "", 0),
       S(378, "draw", {}, {"ax5", "cncf_bins"}, "set_xticklabels", "", "", 0),
       S(379, "draw", {}, {"ax5"}, "legend", "", "", 0),
       S(380, "draw", {}, {"ax5"}, "grid", "", "", 0),
       S(381, "for", {"i", "value"}, {"cncf_values"}, "", "", "", 0),
       S(390, "draw", {}, {"plt"}, "tight_layout", "", "", 0),
       S(391, "savefig", {}, {"DPI", "plt"}, "media/cncf_distribution.svg", "", "", 0),
       S(397, "close", {}, {"plt"}, "", "", "", 0),
       S(400, "subplots", {"fig2", "ax"}, {"COMBINED_GRAPH_HEIGHT", "COMBINED_GRAPH_WIDTH", "plt"}, "", "", "", 0),
       S(403, "assign", {"coarse_bins"}, {}, "", "", "", 0),
       S(407, "assign", {"opensuse_coarse"}, {"opensuse_values"}, "", "", "", 0),
       S(416, "assign", {"stackoverflow_coarse"}, {"stackoverflow_2023_values"}, "", "", "", 0),
       S(425, "assign", {"linux_foundation_coarse"}, {"linux_foundation_values"}, "", "", "", 0),
       S(438, "assign", {"debian_coarse"}, {"debian_values"}, "", "", "", 0),
       S(447, "assign", {"cncf_coarse"}, {"cncf_values"}, "", "", "", 0),
       S(456, "assign", {"x"}, {"coarse_bins", "np"}, "", "", "", 0),
       S(457, "assign", {"width"}, {}, "", "", "", 0),
       S(460, "draw", {"bars1"}, {"ax", "opensuse_coarse", "width", "x"}, "bar", "x", "opensuse_coarse", 0),
       S(470, "draw", {"bars2"}, {"ax", "linux_foundation_coarse", "width", "x"}, "bar", "x", "linux_foundation_coarse", 0),
       S(480, "draw", {"bars3"}, {"ax", "debian_coarse", "width", "x"}, "bar", "x", "debian_coarse", 0),
       S(490, "draw", {"bars4"}, {"ax", "cncf_coarse", "width", "x"}, "bar", "x", "cncf_coarse", 0),
       S(505, "assign", {"so_x_positions"}, {"so_age_positions"}, "", "", "", 0),
       S(507, "draw", {"line_so"}, {"ax", "so_values_for_reference", "so_x_positions"}, "plot", "so_x_positions", "so_values_for_reference", 0),
       S(521, "for", {"i", "xi", "yi"}, {"so_values_for_reference", "so_x_positions"}, "", "", "", 0),
       S(535, "for", {"bar", "bars", "height"}, {"bars1", "bars2", "bars3", "bars4"}, "", "", "", 0),
       S(549, "draw", {}, {"ax"}, "set_xlabel", "", "", 0),
       S(550, "draw", {}, {"ax"}, "set_ylabel", "", "", 0),
       S(551, "draw", {}, {"ax"}, "set_title", "", "", 0),
       S(554, "draw", {}, {"ax", "x"}, "set_xticks", "", "", 0),
       S(555, "draw", {}, {"ax", "coarse_bins"}, "set_xticklabels", "", "", 0),
       S(556, "draw", {}, {"ax"}, "set_ylim", "", "", 0),
       S(569, "draw", {}, {"ax"}, "legend", "", "", 0),
       S(570, "draw", {}, {"ax"}, "grid", "", "", 0),
       S(571, "draw", {}, {"ax"}, "tick_params", "", "", 0),
       S(573, "draw", {}, {"plt"}, "tight_layout", "", "", 0),
       S(574, "savefig", {}, {"DPI", "plt"}, "media/combined_comparison.svg", "", "", 0),
       S(580, "close", {}, {"plt"}, "", "", "", 0) >>

Names == UNION {Program[k].binds : k \in 1..Len(Program)}

VARIABLES
    pc,            \* index into Program of the next statement
    status,        \* "running", "done", or the name of the exception raised
    bound,         \* name -> line of the statement that bound it last, 0 if unbound
    mem,           \* name -> value of the numeric and label lists, <<>> otherwise
    figs,          \* every figure created so far: [line, open, labels]
    current,       \* pyplot's active figure (index into figs), 0 if none
    files,         \* the savefig writes so far, in order: [path, fig]
    phase,         \* which run this is: the script, or a transform on given inputs
    srcValues,     \* remap input: the source values
    ruleSet,       \* remap input: the terms of each target bin
    targetValues,  \* remap output
    counts,        \* conversion input
    percentages    \* conversion output: [raised, values]

runVars == <<pc, status, bound, mem, figs, current, files>>
remapVars == <<srcValues, ruleSet, targetValues>>
countVars == <<counts, percentages>>
vars == <<pc, status, bound, mem, figs, current, files, phase,
          srcValues, ruleSet, targetValues, counts, percentages>>

St == Program[pc]
Running == phase = "script" /\ status = "running" /\ pc \in 1..Len(Program)
Missing == \E n \in St.reads : bound[n] = 0

Raise(e) ==
    /\ status' = e
    /\ UNCHANGED <<pc, bound, mem, figs, current, files>>

Bind(names, line) == [n \in Names |-> IF n \in names THEN line ELSE bound[n]]

Ok(v) == [err |-> "", val |-> v]
Err(e) == [err |-> e, val |-> <<>>]

\* The value of the right-hand side of the assignment at `line`, for the
\* lists the model tracks; the other assignments bind a name only.
Tracked ==
    {36, 37, 40, 51, 52, 53, 59, 62, 77, 88, 98, 101, 102, 103, 104, 107, 108,
     113, 114, 117, 125, 175, 253, 254, 303, 352, 403, 407, 416, 425, 438, 447,
     456, 505}

\* [count / total * 100 for count in counts] with total a global name: the
\* name is looked up once per element, so never for an empty counts list.
Elements(cs, total, totalBound) ==
    IF Len(cs) = 0 THEN Ok(<<>>)
    ELSE IF ~totalBound THEN Err("NameError")
    ELSE LET r == Comprehension(cs, total, 1, <<>>)
         IN  IF r.raised THEN Err("ZeroDivisionError") ELSE Ok(r.values)

Rhs(line, m, b) ==
    CASE line = 36 -> Ok(opensuse_bins)
      [] line = 37 -> Ok(opensuse_values)
      [] line = 40 -> Ok(stackoverflow_bins)
      [] line = 51 -> Ok(stackoverflow_2023_counts)
      [] line = 52 -> Ok(RSum(m["stackoverflow_2023_counts"]))
      [] line = 53 ->
            Elements(m["stackoverflow_2023_counts"], m["stackoverflow_2023_total"],
                     b["stackoverflow_2023_total"] # 0)
      [] line = 59 -> Ok(stackoverflow_2025_values)
      [] line = 62 -> Ok(stackoverflow_2021_values)
      [] line = 77 -> Ok(stackoverflow_2016_values)
      [] line = 88 -> Ok(linux_foundation_bins)
      [] line = 98 -> Ok(linux_foundation_values)
      [] line = 101 -> Ok(debian_bins)
      [] line = 102 -> Ok(debian_counts)
      [] line = 103 -> Ok(RSum(m["debian_counts"]))
      [] line = 104 ->
            Elements(m["debian_counts"], m["debian_total"], b["debian_total"] # 0)
      [] line = 107 -> Ok(cncf_bins)
      [] line = 108 -> Ok(cncf_values)
      [] line = 113 -> Ok(so_bins_for_reference)
      [] line = 114 -> Ok(so_values_for_reference(m["stackoverflow_2023_values"]))
      [] line = 117 -> Ok(so_age_positions)
      [] line = 125 -> Ok(opensuse_age_positions)
      [] line = 175 -> Ok(stackoverflow_age_positions_plot)
      [] line = 253 -> Ok(linux_foundation_age_positions)
      [] line = 254 -> Ok(lf_values(m["linux_foundation_values"]))
      [] line = 303 -> Ok(debian_age_positions)
      [] line = 352 -> Ok(cncf_age_positions)
      [] line = 403 -> Ok(coarse_bins)
      [] line = 407 ->
            IF InRange(m["opensuse_values"], opensuse_rules)
            THEN Ok(opensuse_coarse(m["opensuse_values"])) ELSE Err("IndexError")
      [] line = 416 ->
            IF InRange(m["stackoverflow_2023_values"], stackoverflow_rules)
            THEN Ok(stackoverflow_coarse(m["stackoverflow_2023_values"]))
            ELSE Err("IndexError")
      [] line = 425 ->
            IF InRange(m["linux_foundation_values"], linux_foundation_rules)
            THEN Ok(linux_foundation_coarse(m["linux_foundation_values"]))
            ELSE Err("IndexError")
      [] line = 438 ->
            IF InRange(m["debian_values"], debian_rules)
            THEN Ok(debian_coarse(m["debian_values"])) ELSE Err("IndexError")
      [] line = 447 ->
            IF InRange(m["cncf_values"], cncf_rules)
            THEN Ok(cncf_coarse(m["cncf_values"])) ELSE Err("IndexError")
      [] line = 456 -> Ok(arange(Len(m["coarse_bins"])))
      [] line = 505 -> Ok(so_x_positions(m["so_age_positions"]))

\* ax.plot(x, y) and ax.bar(x, height) raise ValueError when the two lists
\* differ in length.
PlotArgs(st, m) ==
    LET x == m[st.xs]
        y == DropLast(m[st.ys], st.ycut)
    IN  IF Len(x) = Len(y) THEN Ok(y) ELSE Err("ValueError")

\* ax.set_ylim(0, max([max(c1), ..., max(c5)]) * 1.15): the lists are read in
\* order, and max of an empty list raises ValueError on the spot.
RECURSIVE YLimFrom(_, _, _, _)
YLimFrom(names, k, m, b) ==
    IF k > Len(names) THEN ""
    ELSE IF b[names[k]] = 0 THEN "NameError"
    ELSE IF Len(m[names[k]]) = 0 THEN "ValueError"
    ELSE YLimFrom(names, k + 1, m, b)

YLim(m, b) ==
    YLimFrom(<<"opensuse_coarse", "stackoverflow_coarse", "linux_foundation_coarse",
               "debian_coarse", "cncf_coarse">>, 1, m, b)

\* What a for statement did: the exception that ended it, if any, the names
\* it bound, and the ax.text calls it made.
Ran(e, names, texts) == [err |-> e, binds |-> names, texts |-> texts]

\* A labelling loop `for i, value in enumerate(values): ax.text(positions[i], ...)`:
\* no iteration binds nothing and looks up nothing; the first iteration binds
\* the targets and then looks up ax and positions; after that one ax.text per
\* element, IndexError once positions is exhausted.
LabelLoop(values, targets, axes, positions, m, b) ==
    IF Len(values) = 0 THEN Ran("", {}, 0)
    ELSE IF b[axes] = 0 \/ b[positions] = 0 THEN Ran("NameError", targets, 0)
    ELSE IF Len(m[positions]) < Len(values)
    THEN Ran("IndexError", targets, Len(m[positions]))
    ELSE Ran("", targets, Len(values))

\* `if height > 0` and `if yi > 5` inside the loops of the combined chart
Positive(h) == RLt(Num(0), h)
AboveFive(y) == RLt(Num(5), y)
CountPositive(hs) == Cardinality({i \in 1..Len(hs) : Positive(hs[i])})
CountAboveFive(ys, n) == Cardinality({i \in 1..Min(n, Len(ys)) : AboveFive(ys[i])})

\* The for statement at `line`.  In the loops of the combined chart ax is
\* looked up only where the `if` lets ax.text run; the outer loop at line 535
\* runs over a list display of four containers, so it always binds `bars`.
Loop(line, m, b) ==
    CASE line = 154 ->
            LabelLoop(Take(m["opensuse_values"], Len(m["bars1"])),
                      {"i", "bar", "value"}, "ax1", "opensuse_age_positions", m, b)
      [] line = 283 ->
            LabelLoop(m["lf_values"], {"i", "value"},
                      "ax3", "linux_foundation_age_positions", m, b)
      [] line = 332 ->
            LabelLoop(m["debian_values"], {"i", "value"},
                      "ax4", "debian_age_positions", m, b)
      [] line = 381 ->
            LabelLoop(m["cncf_values"], {"i", "value"},
                      "ax5", "cncf_age_positions", m, b)
      [] line = 521 ->
            LET n == Min(Len(m["so_x_positions"]), Len(m["so_values_for_reference"]))
                k == CountAboveFive(m["so_values_for_reference"], n)
            IN  IF n = 0 THEN Ran("", {}, 0)
                ELSE IF k > 0 /\ b["ax"] = 0
                THEN Ran("NameError", {"i", "xi", "yi"}, 0)
                ELSE Ran("", {"i", "xi", "yi"}, k)
      [] line = 535 ->
            LET n == Len(m["bars1"]) + Len(m["bars2"]) + Len(m["bars3"])
                     + Len(m["bars4"])
                k == CountPositive(m["bars1"]) + CountPositive(m["bars2"])
                     + CountPositive(m["bars3"]) + CountPositive(m["bars4"])
                names == IF n = 0 THEN {"bars"} ELSE {"bars", "bar", "height"}
            IN  IF k > 0 /\ b["ax"] = 0 THEN Ran("NameError", names, 0)
                ELSE Ran("", names, k)

\* pyplot.gcf(): the active figure, created on the spot when there is none
NewFigure(line) == [line |-> line, open |-> TRUE, labels |-> 0]
GcfFigs(line) == IF current = 0 THEN Append(figs, NewFigure(line)) ELSE figs
GcfCurrent == IF current = 0 THEN Len(figs) + 1 ELSE current

\* the figure pyplot makes active when figure c is closed: the last one still open
LastOpen(fs) ==
    LET o == {k \in 1..Len(fs) : fs[k].open}
    IN  IF o = {} THEN 0 ELSE CHOOSE k \in o : \A j \in o : j <= k

\* ---------------------------------------------------------------- actions

Docstring ==
    /\ Running /\ St.kind = "doc"
    /\ pc' = pc + 1
    /\ UNCHANGED <<status, bound, mem, figs, current, files>>
    /\ UNCHANGED <<phase, remapVars, countVars>>

Import ==
    /\ Running /\ St.kind = "import"
    /\ pc' = pc + 1
    /\ bound' = Bind(St.binds, St.line)
    /\ UNCHANGED <<status, mem, figs, current, files>>
    /\ UNCHANGED <<phase, remapVars, countVars>>

Assign ==
    /\ Running /\ St.kind = "assign"
    /\ IF Missing THEN Raise("NameError")
       ELSE IF St.line \notin Tracked
       THEN /\ pc' = pc + 1
            /\ bound' = Bind(St.binds, St.line)
            /\ UNCHANGED <<status, mem, figs, current, files>>
       ELSE LET r == Rhs(St.line, mem, bound)
            IN  IF r.err # "" THEN Raise(r.err)
                ELSE /\ pc' = pc + 1
                     /\ bound' = Bind(St.binds, St.line)
                     /\ mem' = [n \in Names |->
                                  IF n \in St.binds THEN r.val ELSE mem[n]]
                     /\ UNCHANGED <<status, figs, current, files>>
    /\ UNCHANGED <<phase, remapVars, countVars>>

\* fig, ax = plt.subplots(...): a new figure, which becomes the active one
Subplots ==
    /\ Running /\ St.kind = "subplots"
    /\ IF Missing THEN Raise("NameError")
       ELSE /\ pc' = pc + 1
            /\ bound' = Bind(St.binds, St.line)
            /\ figs' = Append(figs, NewFigure(St.line))
            /\ current' = Len(figs) + 1
            /\ UNCHANGED <<status, mem, files>>
    /\ UNCHANGED <<phase, remapVars, countVars>>

\* a drawing or styling call on an axes, or plt.tight_layout()
Draw ==
    /\ Running /\ St.kind = "draw"
    /\ IF Missing THEN Raise("NameError")
       ELSE IF St.arg \in {"plot", "bar"}
       THEN LET r == PlotArgs(St, mem)
            IN  IF r.err # "" THEN Raise(r.err)
                ELSE /\ pc' = pc + 1
                     /\ bound' = Bind(St.binds, St.line)
                     /\ mem' = [n \in Names |->
                                  IF n \in St.binds /\ St.arg = "bar"
                                  THEN r.val ELSE mem[n]]
                     /\ UNCHANGED <<status, figs, current, files>>
       ELSE IF St.arg = "set_ylim" /\ YLim(mem, bound) # ""
       THEN Raise(YLim(mem, bound))
       ELSE /\ pc' = pc + 1
            /\ figs' = IF St.arg = "tight_layout" THEN GcfFigs(St.line) ELSE figs
            /\ current' = IF St.arg = "tight_layout" THEN GcfCurrent ELSE current
            /\ UNCHANGED <<status, bound, mem, files>>
    /\ UNCHANGED <<phase, remapVars, countVars>>

\* a for statement whose body calls ax.text on the active figure's axes; the
\* targets it bound stay bound when the body raises
ForLoop ==
    /\ Running /\ St.kind = "for"
    /\ IF Missing THEN Raise("NameError")
       ELSE LET r == Loop(St.line, mem, bound)
                fs == IF current = 0 THEN figs
                      ELSE [figs EXCEPT ![current].labels = @ + r.texts]
            IN  /\ figs' = fs
                /\ bound' = Bind(r.binds, St.line)
                /\ IF r.err # ""
                   THEN status' = r.err /\ pc' = pc
                   ELSE status' = status /\ pc' = pc + 1
                /\ UNCHANGED <<mem, current, files>>
    /\ UNCHANGED <<phase, remapVars, countVars>>

\* plt.savefig(path, ...): writes the active figure to path
Savefig ==
    /\ Running /\ St.kind = "savefig"
    /\ IF Missing THEN Raise("NameError")
       ELSE /\ pc' = pc + 1
            /\ figs' = GcfFigs(St.line)
            /\ current' = GcfCurrent
            /\ files' = Append(files, [path |-> St.arg, fig |-> GcfCurrent])
            /\ UNCHANGED <<status, bound, mem>>
    /\ UNCHANGED <<phase, remapVars, countVars>>

\* mutant: plt.close() left out
Close_Forgotten ==
    /\ Running /\ St.kind = "close"
    /\ pc' = pc + 1
    /\ UNCHANGED <<status, bound, mem, figs, current, files>>
    /\ UNCHANGED <<phase, remapVars, countVars>>

\* plt.close(): closes the active figure, if there is one
Close ==
    /\ Running /\ St.kind = "close"
    /\ IF Missing THEN Raise("NameError")
       ELSE LET fs == IF current = 0 THEN figs
                      ELSE [figs EXCEPT ![current].open = FALSE]
            IN  /\ pc' = pc + 1
                /\ figs' = fs
                /\ current' = LastOpen(fs)
                /\ UNCHANGED <<status, bound, mem, files>>
    /\ UNCHANGED <<phase, remapVars, countVars>>

\* the interpreter falls off the end of the script
Finish ==
    /\ phase = "script" /\ status = "running" /\ pc = Len(Program) + 1
    /\ status' = "done"
    /\ UNCHANGED <<pc, bound, mem, figs, current, files>>
    /\ UNCHANGED <<phase, remapVars, countVars>>

\* ------------------------------------------- the transforms on given inputs

MaxSrc == 2
MaxTgt == 2
MaxLen == 3
MaxCount == 3

ValuePool == {Num(19), Dec(125, 10)}
FractionPool == {Dec(4, 10), Dec(6, 10), Num(1)}

\* What one source bin gives to each of M target bins: nothing, a fraction to
\* one bin, or fractions to two bins.  Fractions need not sum to 1.
Contribs(M) ==
    {c \in [1..M -> FractionPool \cup {Num(0)}] :
        Cardinality({j \in 1..M : c[j] # Num(0)}) <= 2}

RECURSIVE TermsOf(_, _, _, _)
TermsOf(c, j, i, acc) ==
    IF i > Len(c) THEN acc
    ELSE TermsOf(c, j, i + 1,
                 IF c[i][j] # Num(0) THEN Append(acc, Rule(i, c[i][j])) ELSE acc)

RulesOf(c, M) == [j \in 1..M |-> TermsOf(c, j, 1, <<>>)]

Identity(N) == [j \in 1..N |-> <<Whole(j)>>]

NoResult == [raised |-> FALSE, values |-> <<>>]

IdleRun ==
    /\ pc = 0 /\ status = "idle" /\ bound = [n \in Names |-> 0]
    /\ mem = [n \in Names |-> <<>>] /\ figs = <<>> /\ current = 0 /\ files = <<>>

InitRun ==
    /\ phase = "script"
    /\ pc = 1 /\ status = "running" /\ bound = [n \in Names |-> 0]
    /\ mem = [n \in Names |-> <<>>] /\ figs = <<>> /\ current = 0 /\ files = <<>>
    /\ srcValues = <<>> /\ ruleSet = <<>> /\ targetValues = <<>>
    /\ counts = <<>> /\ percentages = NoResult

InitRemap ==
    /\ phase = "remap input"
    /\ IdleRun
    /\ \E N \in 1..MaxSrc, M \in 1..MaxTgt :
         \E vs \in [1..N -> ValuePool], c \in [1..N -> Contribs(M)] :
            /\ srcValues = vs
            /\ ruleSet = RulesOf(c, M)
    /\ targetValues = <<>>
    /\ counts = <<>> /\ percentages = NoResult

InitCounts ==
    /\ phase = "counts input"
    /\ IdleRun
    /\ srcValues = <<>> /\ ruleSet = <<>> /\ targetValues = <<>>
    /\ \E L \in 0..MaxLen : \E cs \in [1..L -> 0..MaxCount] :
         counts = [i \in 1..L |-> Num(cs[i])]
    /\ percentages = NoResult

ApplyRemap ==
    /\ phase = "remap input"
    /\ targetValues' = Remap(srcValues, ruleSet)
    /\ phase' = "remapped"
    /\ UNCHANGED <<runVars, srcValues, ruleSet, countVars>>

\* the output is in the binning of the input: remap it once more
ApplyAgain ==
    /\ phase = "remapped"
    /\ Len(ruleSet) = Len(srcValues)
    /\ targetValues' = Remap(targetValues, ruleSet)
    /\ phase' = "remapped twice"
    /\ UNCHANGED <<runVars, srcValues, ruleSet, countVars>>

ConvertCounts ==
    /\ phase = "counts input"
    /\ percentages' = counts_to_percentages(counts)
    /\ phase' = "converted"
    /\ UNCHANGED <<runVars, remapVars, counts>>

NextRun ==
    \/ Docstring \/ Import \/ Assign \/ Subplots \/ Draw \/ ForLoop
    \/ Savefig \/ Close \/ Finish
NextRemap == ApplyRemap \/ ApplyAgain
NextCounts == ConvertCounts

\* the script's run
Spec == InitRun /\ [][NextRun]_vars
\* the script's run, and remap applied to bounded inputs
InitRunOrRemap == InitRun \/ InitRemap
SpecRemap == InitRunOrRemap /\ [][NextRun \/ NextRemap]_vars
\* the conversion applied to bounded inputs
SpecCounts == InitCounts /\ [][NextCounts]_vars

\* ----------------------------------------------------------------- claims

Defined(n) == bound[n] # 0
Tol == Dec(1, 1000000)
Cent == Dec(5, 1000)
One == Num(1)
Hundred == Num(100)

NonNegative(xs) == \A i \in 1..Len(xs) : RLeq(Num(0), xs[i])
SumsToOne(rules, bins) == \A i \in bins : Within(FracSum(rules, i), One, Tol)
Approx(xs, ys, tol) ==
    /\ Len(xs) = Len(ys)
    /\ \A i \in 1..Len(xs) : Within(xs[i], ys[i], tol)

\* the five coarse mappings: coarse list, source list, rule set
Mappings ==
    { <<"opensuse_coarse", "opensuse_values", opensuse_rules>>,
      <<"stackoverflow_coarse", "stackoverflow_2023_values", stackoverflow_rules>>,
      <<"linux_foundation_coarse", "linux_foundation_values", linux_foundation_rules>>,
      <<"debian_coarse", "debian_values", debian_rules>>,
      <<"cncf_coarse", "cncf_values", cncf_rules>> }
\* the two whose survey ends in a "No answer" bin
WithNoAnswer == {"stackoverflow_coarse", "linux_foundation_coarse"}

RemapValid ==
    /\ phase = "remapped"
    /\ SumsToOne(ruleSet, 1..Len(srcValues))

\* C1 as stated: remap preserves the sum under every rule set whose fractions
\* sum to 1 per source bin, and each of the five coarse lists sums to the sum
\* of all values of its source distribution.
C1_Original ==
    /\ RemapValid => Within(RSum(targetValues), RSum(srcValues), Tol)
    /\ \A mp \in Mappings :
         Defined(mp[1]) => Within(RSum(mem[mp[1]]), RSum(mem[mp[2]]), Tol)

\* C1 amended: remap preserves the sum under every rule set whose fractions
\* sum to 1 per source bin; opensuse_coarse, debian_coarse and cncf_coarse sum
\* to the sum of their source values; stackoverflow_coarse and
\* linux_foundation_coarse, which read no "No answer" bin, sum to the source
\* sum less the value of that last bin.
C1_MassPreserved ==
    /\ RemapValid => Within(RSum(targetValues), RSum(srcValues), Tol)
    /\ \A mp \in Mappings :
         Defined(mp[1]) =>
            LET src == mem[mp[2]]
                kept == IF mp[1] \in WithNoAnswer THEN DropLast(src, 1) ELSE src
            IN  Within(RSum(mem[mp[1]]), RSum(kept), Tol)

\* a valid rule set that splits a source bin over two target bins was applied
C1_Witness ==
    /\ RemapValid
    /\ \E j \in 1..Len(ruleSet) : \E k \in 1..Len(ruleSet[j]) :
         ruleSet[j][k].frac # One
    /\ Len(srcValues) = MaxSrc

\* C2 as stated: in every coarse mapping, every source bin of the survey,
\* a trailing "No answer" bin included, enters the target bins with fractions
\* that sum to 1.
C2_Original ==
    \A mp \in Mappings :
        Defined(mp[1]) => SumsToOne(mp[3], 1..Len(mem[mp[2]]))

\* C2 amended: in every coarse mapping, every source bin enters the target
\* bins with fractions that sum to 1, except the trailing "No answer" bin of
\* Stack Overflow and of the Linux Foundation, which enters no target bin.
C2_FractionsSumToOne ==
    \A mp \in Mappings :
        Defined(mp[1]) =>
            LET n == Len(mem[mp[2]])
            IN  IF mp[1] \in WithNoAnswer
                THEN /\ SumsToOne(mp[3], 1..(n - 1))
                     /\ FracSum(mp[3], n) = Num(0)
                ELSE SumsToOne(mp[3], 1..n)

\* all five coarse lists have been built
C2_Witness == \A mp \in Mappings : Defined(mp[1])

\* C3 as stated: converting any counts whose sum is 0, the empty list
\* included, raises and returns nothing.
C3_Original ==
    (phase = "converted" /\ RSum(counts) = Num(0)) =>
        (percentages.raised /\ percentages.values = <<>>)

\* C3 amended: converting a non-empty list of counts whose sum is 0 raises
\* and returns nothing; converting the empty list divides nothing and
\* returns the empty list; no other conversion raises.
C3_ZeroTotal ==
    phase = "converted" =>
        /\ (RSum(counts) = Num(0) /\ Len(counts) > 0) =>
              (percentages.raised /\ percentages.values = <<>>)
        /\ Len(counts) = 0 => (~percentages.raised /\ percentages.values = <<>>)
        /\ RSum(counts) # Num(0) => ~percentages.raised

\* an all-zero list of two or more counts was converted and raised
C3_Witness ==
    /\ phase = "converted"
    /\ Len(counts) >= 2 /\ RSum(counts) = Num(0)
    /\ percentages.raised

\* C4 as stated: the Debian percentages sum to 100, the counts total 812 and
\* the first percentage is 15/812*100, about 1.84.
C4_Original ==
    Defined("debian_values") =>
        /\ Within(RSum(mem["debian_values"]), Hundred, Tol)
        /\ mem["debian_total"] = Num(812)
        /\ Within(mem["debian_values"][1], RMul(RDiv(Num(15), Num(812)), Hundred), Tol)
        /\ Within(mem["debian_values"][1], Dec(184, 100), Cent)

\* C4 amended: the Debian percentages sum to 100 within 1e-6, the counts
\* total 822 and the first percentage is 15/822*100, about 1.82.
C4_DebianPercentages ==
    Defined("debian_values") =>
        /\ Within(RSum(mem["debian_values"]), Hundred, Tol)
        /\ mem["debian_total"] = Num(822)
        /\ Within(mem["debian_values"][1], RMul(RDiv(Num(15), Num(822)), Hundred), Tol)
        /\ Within(mem["debian_values"][1], Dec(182, 100), Cent)

\* the Debian counts have been converted
C4_Witness == Defined("debian_values") /\ Len(mem["debian_values"]) = 6

\* C5: opensuse_coarse is [19, 26, 28.14, 13.86, 12.5] to two decimals.
C5_OpensuseCoarse ==
    Defined("opensuse_coarse") =>
        Approx(mem["opensuse_coarse"],
               <<Num(19), Num(26), Dec(2814, 100), Dec(1386, 100), Dec(125, 10)>>,
               Cent)

\* opensuse_coarse has been built from [19, 26, 42, 12.5]
C5_Witness ==
    /\ Defined("opensuse_coarse")
    /\ mem["opensuse_values"] = <<Num(19), Num(26), Num(42), Dec(125, 10)>>
    /\ Len(mem["opensuse_coarse"]) = 5

\* C6: cncf_coarse is [23, 32, 25, 12, 7]; it sums to 99, the sum of the six
\* CNCF values.
C6_CncfCoarse ==
    Defined("cncf_coarse") =>
        /\ mem["cncf_coarse"] = <<Num(23), Num(32), Num(25), Num(12), Num(7)>>
        /\ RSum(mem["cncf_coarse"]) = Num(99)
        /\ RSum(mem["cncf_values"]) = Num(99)

\* cncf_coarse has been built from the six CNCF values
C6_Witness == Defined("cncf_coarse") /\ Len(mem["cncf_values"]) = 6

IsIdentity == ruleSet = Identity(Len(srcValues))

\* C7: the identity rule set returns its input, element by element, applied
\* once or twice; and every coarse entry that is one source bin passed whole
\* equals that source value.
C7_IdentityRemap ==
    /\ (phase \in {"remapped", "remapped twice"} /\ IsIdentity) =>
          targetValues = srcValues
    /\ \A mp \in Mappings :
         Defined(mp[1]) =>
            \A j \in 1..Len(mp[3]) :
                mp[3][j] = <<Whole(mp[3][j][1].src)>> =>
                    mem[mp[1]][j] = mem[mp[2]][mp[3][j][1].src]

\* the identity rule set was applied twice to a list of MaxSrc values
C7_Witness ==
    /\ phase = "remapped twice" /\ IsIdentity
    /\ Len(srcValues) = MaxSrc
    /\ targetValues = srcValues

\* every survey's values list with its bins list
Surveys ==
    { <<"opensuse_values", "opensuse_bins">>,
      <<"stackoverflow_2016_values", "stackoverflow_bins">>,
      <<"stackoverflow_2021_values", "stackoverflow_bins">>,
      <<"stackoverflow_2023_values", "stackoverflow_bins">>,
      <<"stackoverflow_2025_values", "stackoverflow_bins">>,
      <<"linux_foundation_values", "linux_foundation_bins">>,
      <<"debian_values", "debian_bins">>,
      <<"cncf_values", "cncf_bins">> }

CoarseLengths ==
    \A mp \in Mappings :
        (Defined(mp[1]) /\ Defined("coarse_bins")) =>
            (Len(mem[mp[1]]) = Len(mem["coarse_bins"]) /\ Len(mem[mp[1]]) = 5)

\* C8 as stated: every survey's values list is as long as its bins list, and
\* every coarse list has len(coarse_bins) = 5 entries.
C8_Original ==
    /\ \A sv \in Surveys :
         (Defined(sv[1]) /\ Defined(sv[2])) => Len(mem[sv[1]]) = Len(mem[sv[2]])
    /\ CoarseLengths

\* C8 amended: every survey's values list is as long as its bins list, except
\* stackoverflow_2016_values, which has 7 entries, one fewer than
\* stackoverflow_bins (it has no "No answer" entry); every coarse list has
\* len(coarse_bins) = 5 entries.
C8_Lengths ==
    /\ \A sv \in Surveys :
         (Defined(sv[1]) /\ Defined(sv[2])) =>
            IF sv[1] = "stackoverflow_2016_values"
            THEN Len(mem[sv[1]]) = 7 /\ Len(mem[sv[2]]) = 8
            ELSE Len(mem[sv[1]]) = Len(mem[sv[2]])
    /\ CoarseLengths

\* every survey and every coarse list has been defined
C8_Witness ==
    /\ \A sv \in Surveys : Defined(sv[1]) /\ Defined(sv[2])
    /\ \A mp \in Mappings : Defined(mp[1])
    /\ Defined("coarse_bins")

\* C9: every survey's values are non-negative and sum to 100 within one
\* percentage point; every coarse value is non-negative.
C9_Percentages ==
    /\ \A sv \in Surveys :
         Defined(sv[1]) =>
            /\ NonNegative(mem[sv[1]])
            /\ Within(RSum(mem[sv[1]]), Hundred, One)
    /\ \A mp \in Mappings : Defined(mp[1]) => NonNegative(mem[mp[1]])

\* every survey and every coarse list has been defined
C9_Witness ==
    /\ \A sv \in Surveys : Defined(sv[1]) /\ Len(mem[sv[1]]) > 0
    /\ \A mp \in Mappings : Defined(mp[1]) /\ Len(mem[mp[1]]) > 0

\* the files of a run, in the order the script writes them
FileOrder ==
    << "media/opensuse_distribution.svg",
       "media/stackoverflow_distribution.svg",
       "media/linux_foundation_distribution.svg",
       "media/debian_distribution.svg",
       "media/cncf_distribution.svg",
       "media/combined_comparison.svg" >>
\* the lines that create the six figures, in order
FigureOrder == <<124, 174, 252, 302, 351, 400>>

OpenFigures == {k \in 1..Len(figs) : figs[k].open}

DataNames ==
    {sv[1] : sv \in Surveys} \cup {sv[2] : sv \in Surveys}
    \cup {mp[1] : mp \in Mappings}
    \cup {"stackoverflow_2023_counts", "stackoverflow_2023_total",
          "debian_counts", "debian_total", "coarse_bins"}

LifecycleInv ==
    /\ status \in {"running", "done"}
    /\ Len(figs) <= 6 /\ \A k \in 1..Len(figs) : figs[k].line = FigureOrder[k]
    /\ Len(files) <= Len(figs)
    /\ \A k \in 1..Len(files) : files[k] = [path |-> FileOrder[k], fig |-> k]
    /\ Cardinality(OpenFigures) <= 1
    /\ \A k \in OpenFigures : k = Len(figs) /\ current = k
    /\ status = "done" => (Len(files) = 6 /\ Len(figs) = 6 /\ OpenFigures = {})

LifecycleStep ==
    /\ Len(figs') > Len(figs) => (OpenFigures = {} /\ Len(files) = Len(figs))
    /\ \A n \in DataNames :
         Defined(n) => (bound'[n] = bound[n] /\ mem'[n] = mem[n])
    /\ pc' = pc + 1 \/ (pc = Len(Program) + 1 /\ status' = "done")

\* C10: six figures are created in the fixed order, each saved once to its
\* own file and closed before the next is created, with at most one open at
\* any time; no name is read before it is bound and no survey or coarse list
\* changes once defined; every step executes the next statement, and the run
\* ends with six files and no open figure.
C10_FigureLifecycle ==
    /\ []LifecycleInv
    /\ [][LifecycleStep]_vars

\* the run has ended with its six files written
C10_Witness == status = "done" /\ Len(files) = 6

====
